---------------------------- MODULE Spec2Model ----------------------------
(***************************************************************************)
(* Edge-matching tiling: the tile-type transforms, the orientation         *)
(* generator, the boundary-type registry, the boolean constraint model     *)
(* built by SimpleCPSATSolver.__init__ and the extraction done by          *)
(* SimpleCPSATSolver.solve.                                                *)
(*                                                                         *)
(* Coordinates are integers of the tile-local frame (half-extent 1) and    *)
(* edge labels are integers.  Python computes with floats: a quarter turn  *)
(* uses cos/sin of k*pi/2, whose rounding error (about 1e-16) is far below *)
(* the tolerance 1e-8 of point_almost_equal, so on integer coordinates the *)
(* rotated points compare exactly as the exact quarter turn does.          *)
(***************************************************************************)
EXTENDS Integers, Sequences, FiniteSets, TLC

(***************************************************************************)
(* Bounds of the model.                                                    *)
(***************************************************************************)
MaxTypes == 2
MaxCells == 2
MaxAmount == 5
MaxVertices == 2
MaxSegments == 1
MaxUntrustedVars == 4

\* epsilon of point_almost_equal is 1 / EpsilonInverse
EpsilonInverse == 100000000

Null == "null"

Range(s) == {s[i] : i \in DOMAIN s}

(***************************************************************************)
(* simple_tiling_instance.py: points, segments, vertices, drawings.        *)
(***************************************************************************)
\* math.hypot(p - q) < epsilon.  For integers n = dx^2 + dy^2 >= 0:
\* sqrt(n) < 1/E  <=>  n * E < 1.
point_almost_equal(p, q) ==
    LET dx == p[1] - q[1]
        dy == p[2] - q[2]
    IN  (dx * dx + dy * dy) * EpsilonInverse < 1

segment_almost_equal(s1, s2) ==
    \/ /\ point_almost_equal(s1.local_start, s2.local_start)
       /\ point_almost_equal(s1.local_end, s2.local_end)
    \/ /\ point_almost_equal(s1.local_start, s2.local_end)
       /\ point_almost_equal(s1.local_end, s2.local_start)

\* math.cos(amount * 0.5 * math.pi) and math.sin(...) of a quarter turn
QuarterCos(amount) ==
    CASE amount % 4 = 0 -> 1
      [] amount % 4 = 1 -> 0
      [] amount % 4 = 2 -> -1
      [] OTHER -> 0

QuarterSin(amount) ==
    CASE amount % 4 = 0 -> 0
      [] amount % 4 = 1 -> 1
      [] amount % 4 = 2 -> 0
      [] OTHER -> -1

RotatePoint(p, amount) ==
    LET c == QuarterCos(amount)
        s == QuarterSin(amount)
    IN  <<p[1] * c - p[2] * s, p[1] * s + p[2] * c>>

ReflectPoint(p, axis) ==
    IF axis = "x" THEN <<-p[1], p[2]>> ELSE <<p[1], -p[2]>>

TileTypeDrawSegment_rotate(seg, amount) ==
    [local_start |-> RotatePoint(seg.local_start, amount),
     local_end |-> RotatePoint(seg.local_end, amount)]

TileTypeDrawSegment_reflect(seg, axis) ==
    [local_start |-> ReflectPoint(seg.local_start, axis),
     local_end |-> ReflectPoint(seg.local_end, axis)]

TileTypeDrawVertex_rotate(v, amount) ==
    [location |-> RotatePoint(v.location, amount)]

TileTypeDrawVertex_reflect(v, axis) ==
    [location |-> ReflectPoint(v.location, axis)]

TileTypeDrawing_rotate(d, amount) ==
    [segments |-> [i \in DOMAIN d.segments |->
                      TileTypeDrawSegment_rotate(d.segments[i], amount)],
     vertices |-> [i \in DOMAIN d.vertices |->
                      TileTypeDrawVertex_rotate(d.vertices[i], amount)]]

TileTypeDrawing_reflect(d, axis) ==
    [segments |-> [i \in DOMAIN d.segments |->
                      TileTypeDrawSegment_reflect(d.segments[i], axis)],
     vertices |-> [i \in DOMAIN d.vertices |->
                      TileTypeDrawVertex_reflect(d.vertices[i], axis)]]

\* The vertex loop of is_almost_equal: every vertex of self, in order, takes
\* a matching element out of the set o built from the other drawing.  The
\* element the inner loop finds first depends on the set's iteration order;
\* on integer coordinates a match is an equal point and the set holds equal
\* elements once, so cand has at most one element and CHOOSE takes it.
RECURSIVE MatchVertices(_, _)
MatchVertices(vs, o) ==
    IF vs = <<>> THEN TRUE
    ELSE LET cand == {ov \in o : point_almost_equal(vs[1].location, ov.location)}
         IN  IF cand = {} THEN FALSE
             ELSE MatchVertices(Tail(vs), o \ {CHOOSE ov \in cand : TRUE})

\* The segment loop of is_almost_equal.
RECURSIVE MatchSegments(_, _)
MatchSegments(ss, oseg) ==
    IF ss = <<>> THEN TRUE
    ELSE LET cand == {os \in oseg : segment_almost_equal(ss[1], os)}
         IN  IF cand = {} THEN FALSE
             ELSE MatchSegments(Tail(ss), oseg \ {CHOOSE os \in cand : TRUE})

TileTypeDrawing_is_almost_equal(self, other) ==
    /\ MatchVertices(self.vertices, Range(other.vertices))
    /\ MatchSegments(self.segments, Range(other.segments))

(***************************************************************************)
(* simple_tiling_instance.py: TileType.                                    *)
(***************************************************************************)
\* A Python slice bound i on a list of length n
PyIndex(i, n) ==
    IF i < 0 THEN (IF i + n < 0 THEN 0 ELSE i + n)
    ELSE (IF i > n THEN n ELSE i)

\* s[i:]
SliceFrom(s, i) == SubSeq(s, PyIndex(i, Len(s)) + 1, Len(s))

\* s[:i]
SliceTo(s, i) == SubSeq(s, 1, PyIndex(i, Len(s)))

Negate(edges) == [i \in DOMAIN edges |-> -edges[i]]

boundaries(t) == <<t.bottom_edges, t.right_edges, t.top_edges, t.left_edges>>

TileType_rotate(t, amount) ==
    LET ccw_order == <<t.bottom_edges, t.right_edges, t.top_edges, t.left_edges>>
        new_order == SliceFrom(ccw_order, -amount) \o SliceTo(ccw_order, -amount)
    IN  [name |-> t.name,
         bottom_edges |-> new_order[1],
         right_edges |-> new_order[2],
         top_edges |-> new_order[3],
         left_edges |-> new_order[4],
         drawing |-> TileTypeDrawing_rotate(t.drawing, amount),
         actual_index |-> -1]

TileType_reflect(t, axis) ==
    IF axis \notin {"x", "y"} THEN "ValueError"
    ELSE IF axis = "x"
    THEN [name |-> t.name,
          bottom_edges |-> Negate(t.bottom_edges),
          right_edges |-> t.left_edges,
          top_edges |-> Negate(t.top_edges),
          left_edges |-> t.right_edges,
          drawing |-> TileTypeDrawing_reflect(t.drawing, axis),
          actual_index |-> -1]
    ELSE [name |-> t.name,
          bottom_edges |-> t.top_edges,
          right_edges |-> Negate(t.right_edges),
          top_edges |-> t.bottom_edges,
          left_edges |-> Negate(t.left_edges),
          drawing |-> TileTypeDrawing_reflect(t.drawing, axis),
          actual_index |-> -1]

TileType_is_almost_equal(self, other) ==
    TileTypeDrawing_is_almost_equal(self.drawing, other.drawing)


(***************************************************************************)
(* Input data: the tile types instances are built from, as a caller hands  *)
(* them over (edge lists not yet sorted), and the drawings and rotation    *)
(* amounts the transforms are applied to.                                  *)
(***************************************************************************)
Seg(p, q) == [local_start |-> p, local_end |-> q]

Vtx(p) == [location |-> p]

RawTile(n, b, r, t, l, d) ==
    [name |-> n, bottom_edges |-> b, right_edges |-> r, top_edges |-> t,
     left_edges |-> l, drawing |-> d, actual_index |-> -1]

\* no lines, no labels
BlankTile ==
    RawTile("blank", <<>>, <<>>, <<>>, <<>>,
            [segments |-> <<>>, vertices |-> <<>>])

\* two lines leaving the bottom side at x = 0 and x = 1, joined at the centre
ForkTile ==
    RawTile("fork", <<1, 0>>, <<>>, <<>>, <<>>,
            [segments |-> <<Seg(<<0, -1>>, <<0, 0>>), Seg(<<1, -1>>, <<0, 0>>)>>,
             vertices |-> <<Vtx(<<0, 0>>)>>])

\* a line from the middle of the left side to the centre
StubTile ==
    RawTile("stub", <<>>, <<>>, <<>>, <<0>>,
            [segments |-> <<Seg(<<-1, 0>>, <<0, 0>>)>>, vertices |-> <<>>])

TilePool == {BlankTile, StubTile, ForkTile}

\* the catalogs handed to TilingInstance
Catalogs == UNION {[1..k -> TilePool] : k \in 1..MaxTypes}

SeqsUpTo(S, n) == UNION {[1..k -> S] : k \in 0..n}

ProbePoints == {<<-1, 0>>, <<1, 0>>}

ProbeSegments == {Seg(<<-1, 0>>, <<1, 0>>), Seg(<<1, 0>>, <<-1, 0>>)}

ProbeDrawings ==
    {[segments |-> ss, vertices |-> vs] :
        ss \in SeqsUpTo(ProbeSegments, MaxSegments),
        vs \in SeqsUpTo({Vtx(p) : p \in ProbePoints}, MaxVertices)}

Amounts == (-MaxAmount)..MaxAmount

SortEdges(edges) == SortSeq(edges, LAMBDA a, b : a < b)

\* the loop of check_counts over one tile type: boundary.sort()
SortBoundaries(t) ==
    [t EXCEPT !.bottom_edges = SortEdges(@), !.right_edges = SortEdges(@),
              !.top_edges = SortEdges(@), !.left_edges = SortEdges(@)]

VARIABLES pc, instance, allow_rotations, allow_reflections,
          actual_tile_types, rejected, boundary_types, cell_vars,
          boundary_vars, cp_model, assignment, outcome, result, probe

vars == <<pc, instance, allow_rotations, allow_reflections,
          actual_tile_types, rejected, boundary_types, cell_vars,
          boundary_vars, cp_model, assignment, outcome, result, probe>>

pipeline_vars == <<pc, instance, allow_rotations, allow_reflections,
                   actual_tile_types, rejected, boundary_types, cell_vars,
                   boundary_vars, cp_model, assignment, outcome, result>>

Init ==
    /\ pc = "start"
    /\ instance = Null
    /\ allow_rotations = Null
    /\ allow_reflections = Null
    /\ actual_tile_types = <<>>
    /\ rejected = <<>>
    /\ boundary_types = <<>>
    /\ cell_vars = <<>>
    /\ boundary_vars = <<>>
    /\ cp_model = Null
    /\ assignment = Null
    /\ outcome = Null
    /\ result = Null
    /\ probe = [op |-> "none"]

(***************************************************************************)
(* simple_tiling_instance.py: TilingInstance and its validator.            *)
(***************************************************************************)
\* check_counts: the two conditions under which it raises ValueError
check_counts_raises(tile_types, tile_type_counts) ==
    \/ Len(tile_types) # Len(tile_type_counts)
    \/ \E i \in DOMAIN tile_type_counts : tile_type_counts[i] < 0

\* check_counts when it does not raise: the instance, every edge list of
\* every tile type sorted in place
check_counts(tile_types, tile_type_counts, width, height) ==
    [tile_types |-> [i \in DOMAIN tile_types |-> SortBoundaries(tile_types[i])],
     tile_type_counts |-> tile_type_counts,
     width |-> width,
     height |-> height]

(***************************************************************************)
(* {F(x) : x \in {e}} evaluates e once and names its value x; TheOne takes *)
(* the single element out again.  The operators below use it where a       *)
(* Python local variable holds a computed value.                           *)
(***************************************************************************)
TheOne(S) == CHOOSE x \in S : TRUE

(***************************************************************************)
(* simple_cpsat_solver.py: the orientation generator.                      *)
(***************************************************************************)
do_reflect(tile_type, axis_comb) ==
    IF axis_comb = "" THEN tile_type
    ELSE IF axis_comb = "x" THEN TileType_reflect(tile_type, "x")
    ELSE IF axis_comb = "y" THEN TileType_reflect(tile_type, "y")
    ELSE TileType_reflect(TileType_reflect(tile_type, "x"), "y")

ReflectionList(allow_ref) ==
    IF allow_ref THEN <<"", "x", "y", "xy">> ELSE <<"">>

RotationCount(allow_rot) == IF allow_rot THEN 4 ELSE 1

\* The k-th candidate (k from 0) of the three nested loops of
\* _actual_tile_types: base type outermost, reflection, rotation innermost.
Candidate(tile_types, allow_rot, allow_ref, k) ==
    [rotated |->
        TileType_rotate(
            do_reflect(
                tile_types[(k \div (Len(ReflectionList(allow_ref))
                                      * RotationCount(allow_rot))) + 1],
                ReflectionList(allow_ref)[((k \div RotationCount(allow_rot))
                                      % Len(ReflectionList(allow_ref))) + 1]),
            k % RotationCount(allow_rot)),
     actual_index |->
        k \div (Len(ReflectionList(allow_ref)) * RotationCount(allow_rot))]

\* The innermost loop body for one candidate c, equal being the positions
\* of the accepted orientations it is almost equal to: with any, it is
\* dropped (recorded in rejected with the first of them, where any() stops);
\* with none, it is tagged with its base type's index and appended.
Decide(c, acc, equal) ==
    IF equal # {}
    THEN [acc EXCEPT !.rejected =
             Append(@, [candidate |-> c.rotated,
                        of_type |-> c.actual_index,
                        kept |-> acc.result[CHOOSE j \in equal :
                                               \A j2 \in equal : j <= j2]])]
    ELSE [acc EXCEPT !.result =
             Append(@, [c.rotated EXCEPT !.actual_index = c.actual_index])]

\* the duplicate test with its operands exchanged: t.is_almost_equal(rotated)
Consider_swapped(c, acc) ==
    TheOne({Decide(c, acc, equal) :
               equal \in {{j \in DOMAIN acc.result :
                             TileType_is_almost_equal(acc.result[j], c.rotated)}}})

Consider(c, acc) ==
    TheOne({Decide(c, acc, equal) :
               equal \in {{j \in DOMAIN acc.result :
                             TileType_is_almost_equal(c.rotated, acc.result[j])}}})

RECURSIVE GenerateFrom(_, _, _, _, _)
GenerateFrom(tile_types, allow_rot, allow_ref, k, acc) ==
    IF k >= Len(tile_types) * Len(ReflectionList(allow_ref)) * RotationCount(allow_rot)
    THEN acc
    ELSE TheOne({GenerateFrom(tile_types, allow_rot, allow_ref, k + 1, nxt) :
                    nxt \in {TheOne({Consider(c, acc) :
                                c \in {Candidate(tile_types, allow_rot,
                                                 allow_ref, k)}})}})

\* _actual_tile_types: result is the orientation list; rejected keeps the
\* dropped candidates
actual_tile_types_of(tile_types, allow_rot, allow_ref) ==
    GenerateFrom(tile_types, allow_rot, allow_ref, 0,
                 [result |-> <<>>, rejected |-> <<>>])

(***************************************************************************)
(* simple_cpsat_solver.py: the boundary-type registry.                     *)
(***************************************************************************)
\* every boundary of every orientation, in the order of the two loops
AllBoundaries(orientations) ==
    [i \in 1..(4 * Len(orientations)) |->
        boundaries(orientations[((i - 1) \div 4) + 1])[((i - 1) % 4) + 1]]

\* the positions of all whose tuple was not seen before
FirstSeen(all) == {i \in DOMAIN all : \A j \in 1..(i - 1) : all[j] # all[i]}

FirstSeenOrder(all, first) ==
    [r \in 1..Cardinality(first) |->
        all[CHOOSE i \in first : Cardinality({j \in first : j < i}) = r - 1]]

\* boundary_types of _compute_boundary_types: the distinct tuples in
\* first-seen order; the id of a boundary type is its position, from 1
compute_boundary_types(orientations) ==
    TheOne({TheOne({FirstSeenOrder(all, first) : first \in {FirstSeen(all)}}) :
               all \in {AllBoundaries(orientations)}})

\* the dictionary boundary_to_index of _compute_boundary_types
boundary_to_index(types, tb) == CHOOSE b \in DOMAIN types : types[b] = tb

(***************************************************************************)
(* simple_cpsat_solver.py: the constraint model.  A variable handle of the *)
(* CpModel is a positive integer, distinct for every _make_var call.  The  *)
(* model is the record of the constraints added to it, by kind.            *)
(***************************************************************************)
\* the keys of cell_vars in insertion order: y outer loop, x inner loop
CellSeq(width, height) ==
    [k \in 1..(width * height) |-> <<(k - 1) % width, (k - 1) \div width>>]

CellIndex(c, width) == c[2] * width + c[1]

\* cell_vars: per cell the list of its variables, one per orientation
CellVars(inst, n) ==
    [c \in Range(CellSeq(inst.width, inst.height)) |->
        [i \in 1..n |-> CellIndex(c, inst.width) * n + i]]

\* tiles_of_type filled without looking at actual_index
TilesOfType_all(inst, orientations, cvs, t) ==
    {cvs[c][i] : c \in DOMAIN cvs, i \in DOMAIN orientations}

\* tiles_of_type[t]: the variables of the orientations of base type t
TilesOfType(inst, orientations, cvs, t) ==
    {cvs[c][i] : c \in DOMAIN cvs,
                 i \in {j \in DOMAIN orientations :
                           orientations[j].actual_index = t}}

\* _make_cell_vars without the count constraints
make_cell_vars_no_counts(inst, orientations) ==
    TheOne({[cell_vars |-> cvs,
             exactly_one |-> [k \in 1..(inst.width * inst.height) |->
                                 Range(cvs[CellSeq(inst.width, inst.height)[k]])],
             linear_eq |-> {}] :
               cvs \in {CellVars(inst, Len(orientations))}})

\* _make_cell_vars: one variable per cell and orientation, exactly one true
\* per cell, and per base type i the sum of the variables of its
\* orientations equal to tile_type_counts[i].  Python's sum([]) == count is
\* the bool 0 == count, which CpModel.add takes as a constant constraint:
\* the same as a sum over no variable.
make_cell_vars(inst, orientations) ==
    TheOne({[cell_vars |-> cvs,
             exactly_one |-> [k \in 1..(inst.width * inst.height) |->
                                 Range(cvs[CellSeq(inst.width, inst.height)[k]])],
             linear_eq |-> {[vars |-> TilesOfType(inst, orientations, cvs, t),
                             rhs |-> inst.tile_type_counts[t + 1]] :
                               t \in 0..(Len(inst.tile_types) - 1)}] :
               cvs \in {CellVars(inst, Len(orientations))}})

\* the neighbours n = [(x, y+1), (x+1, y)] of a cell that are cells
Neighbours(c, width, height) ==
    SelectSeq(<<<<c[1], c[2] + 1>>, <<c[1] + 1, c[2]>>>>,
              LAMBDA nb : nb[1] < width /\ nb[2] < height)

RECURSIVE Flatten(_)
Flatten(ss) == IF ss = <<>> THEN <<>> ELSE Head(ss) \o Flatten(Tail(ss))

\* the keys of boundary_vars in insertion order
PairSeq(width, height) ==
    Flatten([k \in 1..(width * height) |->
        [j \in DOMAIN Neighbours(CellSeq(width, height)[k], width, height) |->
            <<CellSeq(width, height)[k],
              Neighbours(CellSeq(width, height)[k], width, height)[j]>>]])

\* boundary_vars: per adjacent pair the list of its variables, one per
\* boundary type; the handles follow those of the cell variables
BoundaryVars(inst, n, types, pairs) ==
    [pr \in Range(pairs) |->
        [b \in DOMAIN types |->
            inst.width * inst.height * n
              + (CellIndex(pr[1], inst.width) * 2
                   + (IF pr[2][2] > pr[1][2] THEN 0 ELSE 1)) * Len(types)
              + b]]

\* _make_boundary_vars: per cell and per neighbour above or to the right,
\* one variable per boundary type, exactly one true
make_boundary_vars(inst, n, types) ==
    TheOne({TheOne({[boundary_vars |-> bvs,
                     exactly_one |-> [k \in DOMAIN pairs |-> Range(bvs[pairs[k]])]] :
                       bvs \in {BoundaryVars(inst, n, types, pairs)}}) :
               pairs \in {PairSeq(inst.width, inst.height)}})

\* _actual_tile_with_types: per side, boundary id -> positions (from 1) of
\* the orientations showing that boundary type on that side
actual_tile_with_types(orientations, types) ==
    [top |-> [b \in DOMAIN types |->
                 {i \in DOMAIN orientations :
                     boundary_to_index(types, orientations[i].top_edges) = b}],
     bottom |-> [b \in DOMAIN types |->
                 {i \in DOMAIN orientations :
                     boundary_to_index(types, orientations[i].bottom_edges) = b}],
     left |-> [b \in DOMAIN types |->
                 {i \in DOMAIN orientations :
                     boundary_to_index(types, orientations[i].left_edges) = b}],
     right |-> [b \in DOMAIN types |->
                 {i \in DOMAIN orientations :
                     boundary_to_index(types, orientations[i].right_edges) = b}]]

\* _add_boundary_constraint: not(boundary) or some matching cell variable,
\* and every matching cell variable implies the boundary variable
add_boundary_constraint(boundary_type_var, matching_cell_vars) ==
    [bool_or |-> {[neg |-> boundary_type_var, pos |-> matching_cell_vars]},
     implication |-> {<<cv, boundary_type_var>> : cv \in matching_cell_vars}]

\* the loop body with the call for the second cell left out
PairConstraints_first_cell(pr, b, cvs, bvs, att) ==
    IF pr[1][2] < pr[2][2]
    THEN {add_boundary_constraint(bvs[pr][b], {cvs[pr[1]][x] : x \in att.top[b]})}
    ELSE {add_boundary_constraint(bvs[pr][b], {cvs[pr[1]][x] : x \in att.right[b]})}

\* the loop body with the second cell read on the side of the first
PairConstraints_same_side(pr, b, cvs, bvs, att) ==
    IF pr[1][2] < pr[2][2]
    THEN {add_boundary_constraint(bvs[pr][b], {cvs[pr[1]][x] : x \in att.top[b]}),
          add_boundary_constraint(bvs[pr][b], {cvs[pr[2]][x] : x \in att.top[b]})}
    ELSE {add_boundary_constraint(bvs[pr][b], {cvs[pr[1]][x] : x \in att.right[b]}),
          add_boundary_constraint(bvs[pr][b], {cvs[pr[2]][x] : x \in att.right[b]})}

\* the loop body of _add_boundary_constraints for the pair pr = (c1, c2) and
\* the boundary type b: the two calls of _add_boundary_constraint
PairConstraints(pr, b, cvs, bvs, att) ==
    IF pr[1][2] < pr[2][2]
    THEN {add_boundary_constraint(bvs[pr][b], {cvs[pr[1]][x] : x \in att.top[b]}),
          add_boundary_constraint(bvs[pr][b], {cvs[pr[2]][x] : x \in att.bottom[b]})}
    ELSE {add_boundary_constraint(bvs[pr][b], {cvs[pr[1]][x] : x \in att.right[b]}),
          add_boundary_constraint(bvs[pr][b], {cvs[pr[2]][x] : x \in att.left[b]})}

\* _add_boundary_constraints: everything the loops add
add_boundary_constraints(cvs, bvs, att) ==
    UNION {PairConstraints(pr, b, cvs, bvs, att) :
              pr \in DOMAIN bvs, b \in DOMAIN att.top}

\* the CpModel after __init__
ModelOf(cv, bv, added) ==
    [vars |-> UNION ({Range(cv.cell_vars[c]) : c \in DOMAIN cv.cell_vars}
                       \cup {Range(bv.boundary_vars[pr]) :
                                pr \in DOMAIN bv.boundary_vars}),
     exactly_one |-> cv.exactly_one \o bv.exactly_one,
     linear_eq |-> cv.linear_eq,
     bool_or |-> UNION {a.bool_or : a \in added},
     implication |-> UNION {a.implication : a \in added}]

\* __init__ from the cell variables on
BuildModel(inst, gen, types) ==
    TheOne({TheOne({
        [actual_tile_types |-> gen.result,
         rejected |-> gen.rejected,
         boundary_types |-> types,
         cell_vars |-> cv.cell_vars,
         boundary_vars |-> bv.boundary_vars,
         model |-> ModelOf(cv, bv,
                      TheOne({add_boundary_constraints(cv.cell_vars,
                                                       bv.boundary_vars, att) :
                                 att \in {actual_tile_with_types(gen.result,
                                                                 types)}}))] :
           bv \in {make_boundary_vars(inst, Len(gen.result), types)}}) :
        cv \in {make_cell_vars(inst, gen.result)}})

\* _actual_tile_types reads the catalog and the two flags only: its values
\* for the validated catalogs of the inputs, each computed once
GeneratedTable ==
    {[tile_types |-> tt, allow_rot |-> rot, allow_ref |-> ref,
      gen |-> actual_tile_types_of(tt, rot, ref)] :
        tt \in {[i \in DOMAIN c |-> SortBoundaries(c[i])] : c \in Catalogs},
        rot \in BOOLEAN, ref \in BOOLEAN}

Generated(tile_types, allow_rot, allow_ref) ==
    (CHOOSE g \in GeneratedTable :
        /\ g.tile_types = tile_types
        /\ g.allow_rot = allow_rot
        /\ g.allow_ref = allow_ref).gen

\* SimpleCPSATSolver.__init__
SolverInit(inst, allow_rot, allow_ref) ==
    TheOne({TheOne({BuildModel(inst, gen, types) :
                       types \in {compute_boundary_types(gen.result)}}) :
               gen \in {Generated(inst.tile_types, allow_rot, allow_ref)}})

(***************************************************************************)
(* The solving engine (ortools CP-SAT), by its contract: on a model it     *)
(* answers with an assignment that satisfies every constraint, or with     *)
(* INFEASIBLE when there is none.  An assignment is the set of the         *)
(* variables that are true.                                                *)
(***************************************************************************)
Satisfies(model, T) ==
    /\ \A k \in DOMAIN model.exactly_one :
          Cardinality(model.exactly_one[k] \cap T) = 1
    /\ \A l \in model.linear_eq : Cardinality(l.vars \cap T) = l.rhs
    /\ \A c \in model.bool_or : c.neg \notin T \/ c.pos \cap T # {}
    /\ \A im \in model.implication : im[1] \in T => im[2] \in T

\* No constraint is already lost when the variables of D are decided (T of
\* them true) and the others are still open.
Feasible(model, T, D) ==
    /\ \A k \in DOMAIN model.exactly_one :
          /\ Cardinality(model.exactly_one[k] \cap T) <= 1
          /\ model.exactly_one[k] \subseteq D =>
                Cardinality(model.exactly_one[k] \cap T) = 1
    /\ \A l \in model.linear_eq :
          /\ Cardinality(l.vars \cap T) <= l.rhs
          /\ Cardinality(l.vars \cap T) + Cardinality(l.vars \ D) >= l.rhs
    /\ \A c \in model.bool_or :
          (c.neg \in T /\ c.pos \subseteq D) => c.pos \cap T # {}
    /\ \A im \in model.implication :
          (im[1] \in T /\ im[2] \in D) => im[2] \in T

\* Every satisfying assignment, found by deciding the exactly-one groups in
\* turn (one true variable each) and the remaining variables freely.
RECURSIVE Search(_, _, _, _)
Search(model, k, T, D) ==
    IF k > Len(model.exactly_one)
    THEN {T2 \in {T \cup F : F \in SUBSET (model.vars \ D)} :
             Satisfies(model, T2)}
    ELSE UNION {Search(model, k + 1, TD[1], TD[2]) :
                   TD \in {TD \in {<<T \cup {v}, D \cup model.exactly_one[k]>> :
                                      v \in model.exactly_one[k] \ D} :
                              Feasible(model, TD[1], TD[2])}}

SatAssignments(model) == Search(model, 1, {}, {})

\* the extraction without the check for a second true variable
Extract_last_true(cvs, orientations, T) ==
    IF \E c \in DOMAIN cvs : \A i \in DOMAIN cvs[c] : cvs[c][i] \notin T
    THEN [raised |-> "ValueError", value |-> Null]
    ELSE [raised |-> Null,
          value |-> [c \in DOMAIN cvs |->
                       orientations[CHOOSE i \in DOMAIN cvs[c] :
                                       /\ cvs[c][i] \in T
                                       /\ \A j \in DOMAIN cvs[c] :
                                             cvs[c][j] \in T => j <= i]]]

\* the extraction loop of solve(): per cell the orientation of its one true
\* variable; ValueError when a cell has none or several
Extract(cvs, orientations, T) ==
    IF \E c \in DOMAIN cvs :
          Cardinality({i \in DOMAIN cvs[c] : cvs[c][i] \in T}) # 1
    THEN [raised |-> "ValueError", value |-> Null]
    ELSE [raised |-> Null,
          value |-> [c \in DOMAIN cvs |->
                       orientations[CHOOSE i \in DOMAIN cvs[c] : cvs[c][i] \in T]]]

(***************************************************************************)
(* The operations.                                                         *)
(***************************************************************************)

RECURSIVE Sum(_)
Sum(s) == IF s = <<>> THEN 0 ELSE Head(s) + Sum(Tail(s))

\* The count lists handed to TilingInstance: a negative count, and totals up
\* to one tile more than the largest grid holds.
CountLists ==
    {cl \in UNION {[1..k -> (-1)..MaxCells] : k \in 1..MaxTypes} :
        Sum(cl) <= MaxCells + 1}

Grids == {wh \in (1..MaxCells) \X (1..MaxCells) : wh[1] * wh[2] <= MaxCells}

\* TilingInstance(...): the validator raises, or the instance exists
CreateInstance ==
    /\ pc = "start"
    /\ \E tile_types \in Catalogs, tile_type_counts \in CountLists, wh \in Grids :
          IF check_counts_raises(tile_types, tile_type_counts)
          THEN /\ pc' = "config_error"
               /\ UNCHANGED instance
          ELSE /\ pc' = "instance"
               /\ instance' = check_counts(tile_types, tile_type_counts,
                                           wh[1], wh[2])
    /\ UNCHANGED <<allow_rotations, allow_reflections, actual_tile_types,
                   rejected, boundary_types, cell_vars, boundary_vars,
                   cp_model, assignment, outcome, result, probe>>

\* SimpleCPSATSolver(instance, allow_rotations, allow_reflections)
CreateSolver ==
    /\ pc = "instance"
    /\ \E rot \in BOOLEAN, ref \in BOOLEAN :
          \E s \in {SolverInit(instance, rot, ref)} :
              /\ allow_rotations' = rot
              /\ allow_reflections' = ref
              /\ actual_tile_types' = s.actual_tile_types
              /\ rejected' = s.rejected
              /\ boundary_types' = s.boundary_types
              /\ cell_vars' = s.cell_vars
              /\ boundary_vars' = s.boundary_vars
              /\ cp_model' = s.model
    /\ pc' = "built"
    /\ UNCHANGED <<instance, assignment, outcome, result, probe>>

\* solve(): status OPTIMAL/FEASIBLE with an assignment, then the extraction;
\* or status INFEASIBLE and None
Solve ==
    /\ pc = "built"
    /\ \E sat \in {SatAssignments(cp_model)} :
          IF sat = {}
          THEN /\ assignment' = Null
               /\ outcome' = "None"
               /\ result' = Null
          ELSE \E T \in sat :
                  \E e \in {Extract(cell_vars, actual_tile_types, T)} :
                      /\ assignment' = T
                      /\ outcome' = IF e.raised = Null THEN "mapping" ELSE e.raised
                      /\ result' = e.value
    /\ pc' = "solved"
    /\ UNCHANGED <<instance, allow_rotations, allow_reflections,
                   actual_tile_types, rejected, boundary_types, cell_vars,
                   boundary_vars, cp_model, probe>>

Next == CreateInstance \/ CreateSolver \/ Solve

Spec == Init /\ [][Next]_vars

(***************************************************************************)
(* The transforms and the drawing comparison, applied to bounded inputs.   *)
(***************************************************************************)
Rotate ==
    \E t \in TilePool, amount \in Amounts :
        /\ probe.op = "none"
        /\ probe' = [op |-> "rotate", tile |-> SortBoundaries(t),
                     amount |-> amount,
                     out |-> TileType_rotate(SortBoundaries(t), amount)]
        /\ UNCHANGED pipeline_vars

Reflect ==
    \E t \in TilePool, axis \in {"x", "y", "z"} :
        /\ probe.op = "none"
        /\ probe' = [op |-> "reflect", tile |-> SortBoundaries(t),
                     axis |-> axis,
                     out |-> TileType_reflect(SortBoundaries(t), axis)]
        /\ UNCHANGED pipeline_vars

IsAlmostEqual ==
    \E d1 \in ProbeDrawings, d2 \in ProbeDrawings :
        /\ probe.op = "none"
        /\ probe' = [op |-> "is_almost_equal", self |-> d1, other |-> d2,
                     out |-> TileTypeDrawing_is_almost_equal(d1, d2)]
        /\ UNCHANGED pipeline_vars

NextGeometry == Rotate \/ Reflect \/ IsAlmostEqual

SpecGeometry == Init /\ [][NextGeometry]_vars


(***************************************************************************)
(* The same construction with a solving engine that is not trusted: it may *)
(* answer with any status and, with OPTIMAL/FEASIBLE, with any values for  *)
(* the cell variables.  solve() then runs its extraction on them.          *)
(***************************************************************************)
CellVarSet == UNION {Range(cell_vars[c]) : c \in DOMAIN cell_vars}

SolveUntrusted ==
    /\ pc = "built"
    /\ Cardinality(CellVarSet) <= MaxUntrustedVars
    /\ \/ \E T \in SUBSET CellVarSet :
             \E e \in {Extract(cell_vars, actual_tile_types, T)} :
                 /\ assignment' = T
                 /\ outcome' = IF e.raised = Null THEN "mapping" ELSE e.raised
                 /\ result' = e.value
       \/ /\ assignment' = Null
          /\ outcome' \in {"None", "RuntimeError"}
          /\ result' = Null
    /\ pc' = "solved"
    /\ UNCHANGED <<instance, allow_rotations, allow_reflections,
                   actual_tile_types, rejected, boundary_types, cell_vars,
                   boundary_vars, cp_model, probe>>

NextUntrusted == CreateInstance \/ CreateSolver \/ SolveUntrusted

SpecUntrusted == Init /\ [][NextUntrusted]_vars

(***************************************************************************)
(* Properties.                                                             *)
(***************************************************************************)
GridCells == {<<x, y>> : x \in 0..(instance.width - 1),
                         y \in 0..(instance.height - 1)}

Returned == pc = "solved" /\ outcome = "mapping"

IsSorted(edges) == \A i \in 1..(Len(edges) - 1) : edges[i] <= edges[i + 1]

\* the cells of the mapping m agree on every shared side
SidesMatch(m) ==
    \A c1 \in DOMAIN m, c2 \in DOMAIN m :
        /\ c2 = <<c1[1], c1[2] + 1>> => m[c1].top_edges = m[c2].bottom_edges
        /\ c2 = <<c1[1] + 1, c1[2]>> => m[c1].right_edges = m[c2].left_edges

\* the mapping m uses base type i exactly tile_type_counts[i] times
CountsMet(m) ==
    \A i \in 0..(Len(instance.tile_types) - 1) :
        Cardinality({c \in DOMAIN m : m[c].actual_index = i})
            = instance.tile_type_counts[i + 1]

\* C1: in every mapping solve() returns, vertically and horizontally
\* adjacent cells carry the same edge-label tuple on the side they share.
BoundaryMatching == Returned => SidesMatch(result)

BoundaryMatchingWitness ==
    /\ Returned
    /\ <<0, 0>> \in DOMAIN result /\ <<1, 0>> \in DOMAIN result
    /\ result[<<0, 0>>].right_edges # <<>>
    /\ result[<<0, 0>>].right_edges = result[<<1, 0>>].left_edges

\* C2: in every mapping solve() returns, each base type index i is the
\* actual_index of exactly tile_type_counts[i] cells.
CountConservation == Returned => CountsMet(result)

CountConservationWitness ==
    /\ Returned
    /\ Len(instance.tile_types) = 2
    /\ instance.tile_type_counts = <<1, 1>>
    /\ {result[c].actual_index : c \in DOMAIN result} = {0, 1}

\* C3: a mapping solve() returns has exactly the grid cells as keys, each
\* mapped to the orientation of the one true variable of the cell; when the
\* engine's values leave a cell with no or several true variables solve()
\* raises ValueError.
ExactlyOneOrError ==
    pc = "solved" /\ outcome \in {"mapping", "ValueError"} =>
        /\ outcome = "mapping" =>
              /\ DOMAIN result = GridCells
              /\ \A c \in GridCells :
                    \E i \in DOMAIN actual_tile_types :
                        /\ result[c] = actual_tile_types[i]
                        /\ {j \in DOMAIN cell_vars[c] :
                               cell_vars[c][j] \in assignment} = {i}
        /\ (\E c \in GridCells :
               Cardinality({j \in DOMAIN cell_vars[c] :
                               cell_vars[c][j] \in assignment}) # 1)
              => outcome = "ValueError"

ExactlyOneOrErrorWitness ==
    /\ pc = "solved"
    /\ outcome = "ValueError"
    /\ \E c \in GridCells :
          Cardinality({j \in DOMAIN cell_vars[c] :
                          cell_vars[c][j] \in assignment}) > 1

\* C4: when the counts of an instance do not sum to width * height, the
\* solver is built and solve() returns None.
InfeasibleCountsGiveNone ==
    pc = "solved" /\ Sum(instance.tile_type_counts)
                        # instance.width * instance.height
        => outcome = "None"

InfeasibleCountsGiveNoneWitness ==
    /\ pc = "solved"
    /\ instance.tile_type_counts = <<2>>
    /\ instance.width = 1 /\ instance.height = 1
    /\ outcome = "None"

\* C5: every generated orientation has its four edge-label lists sorted
\* ascending.
OrientationsSorted ==
    pc \in {"built", "solved"} =>
        \A i \in DOMAIN actual_tile_types :
            \A k \in 1..4 : IsSorted(boundaries(actual_tile_types[i])[k])

\* a one-to-one correspondence between all elements of two lists
Bijections(n) == {f \in [1..n -> 1..n] : \A i, j \in 1..n : f[i] = f[j] => i = j}

VerticesCorrespond(vs1, vs2) ==
    /\ Len(vs1) = Len(vs2)
    /\ \E f \in Bijections(Len(vs1)) :
          \A i \in DOMAIN vs1 :
              point_almost_equal(vs1[i].location, vs2[f[i]].location)

SegmentsCorrespond(ss1, ss2) ==
    /\ Len(ss1) = Len(ss2)
    /\ \E f \in Bijections(Len(ss1)) :
          \A i \in DOMAIN ss1 : segment_almost_equal(ss1[i], ss2[f[i]])

\* C6: is_almost_equal is true exactly when all vertices and all segments
\* of the two drawings correspond one to one.
DrawingEqualityIsMultisetEquality ==
    probe.op = "is_almost_equal" =>
        (probe.out <=> /\ VerticesCorrespond(probe.self.vertices,
                                             probe.other.vertices)
                       /\ SegmentsCorrespond(probe.self.segments,
                                             probe.other.segments))

\* one rotate(1) step: old left -> bottom, bottom -> right, right -> top,
\* top -> left
QuarterTurn(b) == <<b[4], b[1], b[2], b[3]>>

RECURSIVE QuarterTurns(_, _)
QuarterTurns(b, n) == IF n = 0 THEN b ELSE QuarterTurns(QuarterTurn(b), n - 1)

\* C7: rotate(amount) gives the edge lists of (amount mod 4) single steps.
RotateIsAmountMod4 ==
    probe.op = "rotate" =>
        boundaries(probe.out) = QuarterTurns(boundaries(probe.tile),
                                             probe.amount % 4)

TypeContributes(i) ==
    \E j \in DOMAIN actual_tile_types : actual_tile_types[j].actual_index = i

\* C8 as stated: every base type has at least one orientation in the
\* generated list.
EveryBaseTypeContributes ==
    pc \in {"built", "solved"} =>
        \A i \in 0..(Len(instance.tile_types) - 1) : TypeContributes(i)

\* C8 amended: a base type has an orientation in the generated list
\* whenever its unreflected, unrotated drawing is not almost equal to an
\* orientation accepted from a base type before it; the first always has.
FreshBaseTypeContributes ==
    pc \in {"built", "solved"} =>
        \A i \in 0..(Len(instance.tile_types) - 1) :
            (\A j \in DOMAIN actual_tile_types :
                actual_tile_types[j].actual_index < i =>
                    ~TileType_is_almost_equal(instance.tile_types[i + 1],
                                              actual_tile_types[j]))
              => TypeContributes(i)

FreshBaseTypeContributesWitness ==
    /\ pc = "built"
    /\ Len(instance.tile_types) = 2
    /\ instance.tile_types[1].name # instance.tile_types[2].name
    /\ TypeContributes(0) /\ TypeContributes(1)
    /\ rejected # <<>>

\* C9: a candidate dropped as a duplicate has the four edge-label lists of
\* the accepted orientation it duplicates.
RejectedCarriesSameLabels ==
    \A k \in DOMAIN rejected :
        boundaries(rejected[k].candidate) = boundaries(rejected[k].kept)

\* the assignments of one generated orientation to every cell that use
\* each base type as often as required and match on every shared side
Placements == [GridCells -> DOMAIN actual_tile_types]

MappingOf(f) == [c \in DOMAIN f |-> actual_tile_types[f[c]]]

ValidTilingExists ==
    \E f \in Placements : CountsMet(MappingOf(f)) /\ SidesMatch(MappingOf(f))

\* the side of the pair pr = (c1, c2) as the orientation of c1 and as the
\* orientation of c2 show it
SideOfFirst(m, pr) ==
    IF pr[1][2] < pr[2][2] THEN m[pr[1]].top_edges ELSE m[pr[1]].right_edges

SideOfSecond(m, pr) ==
    IF pr[1][2] < pr[2][2] THEN m[pr[2]].bottom_edges ELSE m[pr[2]].left_edges

\* C10: solve() returns a mapping exactly when a valid tiling with the
\* generated orientations exists, the mapping is one, and in the solution
\* the boundary variable of a pair and a boundary type is true exactly when
\* the first cell shows that type on the shared side, and exactly when the
\* second does.
EncodingExact ==
    pc = "solved" =>
        /\ outcome \in {"mapping", "None"}
        /\ outcome = "None" => ~ValidTilingExists
        /\ outcome = "mapping" =>
              /\ DOMAIN result = GridCells
              /\ CountsMet(result)
              /\ SidesMatch(result)
              /\ \A pr \in DOMAIN boundary_vars, b \in DOMAIN boundary_types :
                    /\ boundary_vars[pr][b] \in assignment
                          <=> SideOfFirst(result, pr) = boundary_types[b]
                    /\ boundary_vars[pr][b] \in assignment
                          <=> SideOfSecond(result, pr) = boundary_types[b]

EncodingExactWitness ==
    /\ Returned
    /\ <<0, 0>> \in DOMAIN result /\ <<0, 1>> \in DOMAIN result
    /\ Len(boundary_types) > 1
    /\ result[<<0, 0>>].top_edges # <<>>
    /\ \E b \in DOMAIN boundary_types :
          /\ boundary_vars[<<<<0, 0>>, <<0, 1>>>>][b] \in assignment
          /\ boundary_types[b] = result[<<0, 1>>].bottom_edges

=============================================================================
